---- MODULE Spec2Model ----
(***************************************************************************)
(* QuantumDB: the SQL Server script generator and the service around it.   *)
(*                                                                         *)
(* The repository holds two implementations of SQLServerBackupStrategy:    *)
(*   "modular" - src/src/strategies/sqlserver/sqlserver_backup_strategy.py *)
(*               with one generator class per section (pyodbc catalog      *)
(*               queries over one connection);                             *)
(*   "legacy"  - src/src/strategies/sqlserver_strategy.py (sqlcmd / bcp    *)
(*               subprocesses), the class BackupStrategyFactory creates.   *)
(* One backup job is modelled as a state machine over the script file it   *)
(* writes.  The script is a sequence of statement records; identifiers and *)
(* banners are the strings the code writes, values are sequences of        *)
(* characters.  Catalog queries are the environment: each one either       *)
(* answers from the source database `db` or fails.                         *)
(*                                                                         *)
(* Specifications:                                                         *)
(*   Spec         one job of either SQLServerBackupStrategy class          *)
(*   ServiceSpec  BackupService and SchedulerService: the jobs of the      *)
(*                configured databases, the files they leave, retention    *)
(*                cleanup and the stop signal                              *)
(*   CleanupSpec  CleanupService.cleanup_old_backups on a directory        *)
(*   TimeSpec     BackupSettings._validate_time_format on a text           *)
(*   QuoteSpec    the formatting of one text value by both generators      *)
(*   ValueSpec    the formatting of one row value of any class             *)
(*   TypeSpec     the type string of one column by both generators         *)
(*   SettingsSpec ConfigRepository.get_backup_settings on a configuration  *)
(***************************************************************************)
EXTENDS Integers, Sequences, FiniteSets, TLC

VARIABLES
    impl,       \* the strategy class that runs the job
    db,         \* the source database: the ordered list of user tables
    password,   \* db_config.password as handed to backup()
    pc,         \* position of backup() in its sequence of phases
    conn,       \* "none" | "open" | "closed"
    attempts,   \* number of connection attempts made by the job
    exists,     \* whether script_file exists on disk
    script,     \* content of script_file: a sequence of statement records
    phases,     \* the generate() calls made so far, with their return values
    result,     \* the BackupResult returned by backup(), or NoResult
    faults,     \* number of environment failures injected so far
    databases,  \* BackupService.databases: the configured DatabaseConfig list
    svc,        \* the call of BackupService in progress and its position
    results,    \* the results list of backup_all_databases
    files,      \* the files in Config.BACKUP_DIR and Config.ANNUAL_BACKUP_DIR
    process,    \* "running", or how the process ended
    arg,        \* the argument of the function under study
    ret         \* the value the function returned, or NotCalled

jobvars == <<impl, db, password, pc, conn, attempts, exists, script, phases, result, faults>>
svcvars == <<databases, svc, results, files, process>>
funvars == <<arg, ret>>
vars == <<jobvars, svcvars, funvars>>

-----------------------------------------------------------------------------
(* Bounds of the model                                                     *)

MaxTables == 2
MaxRows == 2
MaxFaults == 2

-----------------------------------------------------------------------------
(* Each specification moves the variables of its own part of the program;  *)
(* the others rest at these values.                                        *)

\* Python's None
None == "None"

NoResult == [returned |-> FALSE, success |-> FALSE, output_file |-> None, error |-> None]

\* No call of BackupService in progress; runs and scheduled count the calls of
\* backup_all_databases and of _run_daily_backup_job, now is the day
NoCall ==
    [op |-> "none", is_annual |-> FALSE, at |-> 0, runs |-> 0, deleted |-> 0,
     now |-> 0, scheduled |-> 0]

NotCalled == [by |-> "nobody"]

NoJob ==
    /\ impl = "none" /\ db = << >> /\ password = << >> /\ pc = "none"
    /\ conn = "none" /\ attempts = 0 /\ exists = FALSE /\ script = << >>
    /\ phases = << >> /\ result = NoResult /\ faults = 0

NoService ==
    /\ databases = << >> /\ svc = NoCall /\ results = << >>
    /\ files = {} /\ process = "running"

NoFunction == arg = << >> /\ ret = NotCalled

-----------------------------------------------------------------------------
(* Text helpers: a text is a sequence of one-character strings             *)

RECURSIVE Join(_, _)
Join(parts, sep) ==
    IF parts = << >> THEN << >>
    ELSE IF Len(parts) = 1 THEN Head(parts)
    ELSE Head(parts) \o sep \o Join(Tail(parts), sep)

\* str.split(sep) for a one-character separator: always at least one part
RECURSIVE Split(_, _)
Split(text, sep) ==
    IF text = << >> THEN << << >> >>
    ELSE LET rest == Split(Tail(text), sep) IN
         IF Head(text) = sep THEN << << >> >> \o rest
         ELSE << <<Head(text)>> \o Head(rest) >> \o Tail(rest)

\* str.replace("'", "''")
RECURSIVE EscapeQuotes(_)
EscapeQuotes(text) ==
    IF text = << >> THEN << >>
    ELSE (IF Head(text) = "'" THEN <<"'", "'">> ELSE <<Head(text)>>)
         \o EscapeQuotes(Tail(text))

Whitespace == {" ", "\n", "\t", "\r"}

\* str.strip()
RECURSIVE LStrip(_)
LStrip(text) ==
    IF text # << >> /\ Head(text) \in Whitespace THEN LStrip(Tail(text)) ELSE text

RECURSIVE RStrip(_)
RStrip(text) ==
    IF text # << >> /\ text[Len(text)] \in Whitespace
    THEN RStrip(SubSeq(text, 1, Len(text) - 1)) ELSE text

Strip(text) == RStrip(LStrip(text))

RECURSIVE Concat(_)
Concat(seqs) == IF seqs = << >> THEN << >> ELSE Head(seqs) \o Concat(Tail(seqs))

SeqMap(Op(_), s) == [i \in 1..Len(s) |-> Op(s[i])]

Take(s, n) == SubSeq(s, 1, IF n < Len(s) THEN n ELSE Len(s))

-----------------------------------------------------------------------------
(* The source database                                                     *)

\* sys.tables ORDER BY s.name, t.name: table i of the catalog carries TableNames[i]
SchemaName == "dbo"
TableNames == <<"Customers", "Invoices", "Orders", "Products">>

\* sys.columns ORDER BY column_id: every table has an int column and a text column
ColumnNames == <<"id", "txt">>
ColumnTypes == <<"int", "varchar">>

IntValue == [kind |-> "int", text |-> <<"7">>]
StrValue(t) == [kind |-> "str", text |-> t]

\* The other values a pyodbc row holds: None, datetime, bytes, bool, Decimal
NullValue == [kind |-> "null", text |-> <<"N", "o", "n", "e">>]
DateTimeValue(t) == [kind |-> "datetime", text |-> t]
BytesValue(b) == [kind |-> "bytes", text |-> <<"b", "'", "'">>, bytes |-> b]
BoolValue(b) ==
    [kind |-> "bool", truth |-> b,
     text |-> IF b THEN <<"T", "r", "u", "e">> ELSE <<"F", "a", "l", "s", "e">>]
DecimalValue(t) == [kind |-> "decimal", text |-> t]

PlainRow == <<IntValue, StrValue(<<"x">>)>>
MultilineRow == <<IntValue, StrValue(<<"x", "\n", "y">>)>>

PlainRows(n) == [i \in 1..n |-> PlainRow]

\* The table shapes a source database is built from.  identity: the id column
\* is an IDENTITY column and the table's primary key.
TableShapes ==
    { [identity |-> TRUE,  rows |-> PlainRows(MaxRows)],
      [identity |-> TRUE,  rows |-> << >>],
      [identity |-> FALSE, rows |-> <<MultilineRow>>],
      [identity |-> FALSE, rows |-> << >>] }

Databases == UNION { [1..n -> TableShapes] : n \in 0..MaxTables }

User == <<"s", "a">>

-----------------------------------------------------------------------------
(* Statements of the script                                                *)

NoText == ""

Stmt(kind, table, name, cols, vals) ==
    [kind |-> kind, table |-> table, name |-> name, cols |-> cols, vals |-> vals]

Banner(section) == Stmt("BANNER", NoText, section, << >>, << >>)

\* f"[{schema}.{table}]" with full = f"{schema}.{table}": one bracketed name
FullName(i) == "[" \o SchemaName \o "." \o TableNames[i] \o "]"

\* f"[{schema}].[{table}]": a two-part name
QualifiedName(i) == "[" \o SchemaName \o "].[" \o TableNames[i] \o "]"

NoFailure == [stage |-> "none", tbl |-> 0, row |-> 0]
Failure(stage, i, k) == [stage |-> stage, tbl |-> i, row |-> k]

\* Number of environment failures a phase outcome stands for
Cost(fail) == IF fail.stage = "none" THEN 0 ELSE 1

-----------------------------------------------------------------------------
(* Modular implementation: strategies/sqlserver/*.py                       *)

\* One iteration of the table loop of SchemaGenerator.generate
SchemaTable(d, i, fail) ==
    LET here == fail.tbl = i
        drop == <<Stmt("DROP TABLE", FullName(i), NoText, << >>, << >>)>>
        create == <<Stmt("CREATE TABLE", FullName(i), NoText, ColumnNames, << >>)>>
        pk == IF d[i].identity
              THEN <<Stmt("PRIMARY KEY", FullName(i), "PK_" \o TableNames[i], <<"id">>, << >>)>>
              ELSE << >>
    IN  IF here /\ fail.stage = "columns" THEN drop
        ELSE IF here /\ fail.stage = "pk" THEN drop \o create
        ELSE drop \o create \o pk

\* Tables the loop reaches: all of them, or those up to the failing one
Reached(d, fail) == IF fail.tbl = 0 THEN Len(d) ELSE fail.tbl

\* SchemaGenerator.generate: what it appends to the script
SchemaGenerator(d, fail) ==
    IF fail.stage = "cursor" THEN << >>
    ELSE IF fail.stage = "list" THEN <<Banner("schema")>>
    ELSE <<Banner("schema")>>
         \o Concat([i \in 1..Reached(d, fail) |-> SchemaTable(d, i, fail)])

SchemaStages == {"cursor", "list"}
SchemaTableStages == {"columns", "pk"}

SchemaFailures(d) ==
    { Failure(s, 0, 0) : s \in SchemaStages }
    \cup { Failure(s, i, 0) : s \in SchemaTableStages, i \in 1..Len(d) }

batch_size == 300

HexDigits ==
    <<"0", "1", "2", "3", "4", "5", "6", "7", "8", "9", "a", "b", "c", "d", "e", "f">>

\* bytes.hex(): two digits for each byte
Hex(bytes) ==
    Concat([i \in 1..Len(bytes) |->
                <<HexDigits[(bytes[i] \div 16) + 1], HexDigits[(bytes[i] % 16) + 1]>>])

\* Variant of FormatValue without the rule for booleans: a boolean falls to
\* the last rule, str(v)
FormatValueBoolAsText(v) ==
    IF v.kind = "null" THEN <<"NULL">>
    ELSE IF v.kind = "str" THEN <<"'">> \o EscapeQuotes(v.text) \o <<"'">>
    ELSE IF v.kind = "datetime" THEN <<"'">> \o v.text \o <<"'">>
    ELSE IF v.kind = "bytes" THEN (IF v.bytes # << >> THEN <<"0", "x">> \o Hex(v.bytes)
                                   ELSE <<"NULL">>)
    ELSE v.text

\* The per-value rule of DataGenerator.generate, lines 70-82; v.kind is the
\* Python class of the value and v.text is str(v)
FormatValue(v) ==
    IF v.kind = "null" THEN <<"NULL">>
    ELSE IF v.kind = "str" THEN <<"'">> \o EscapeQuotes(v.text) \o <<"'">>
    ELSE IF v.kind = "datetime" THEN <<"'">> \o v.text \o <<"'">>
    ELSE IF v.kind = "bytes" THEN (IF v.bytes # << >> THEN <<"0", "x">> \o Hex(v.bytes)
                                   ELSE <<"NULL">>)
    ELSE IF v.kind = "bool" THEN (IF v.truth THEN <<"1">> ELSE <<"0">>)
    ELSE v.text

InsertRow(i, row) ==
    Stmt("INSERT", FullName(i), NoText, ColumnNames, SeqMap(FormatValue, row))

\* INSERTs of rows first..last of table i, with GO after each full or final batch
RECURSIVE InsertBatches(_, _, _, _)
InsertBatches(i, rows, first, size) ==
    IF first > Len(rows) THEN << >>
    ELSE LET last == IF first + size - 1 < Len(rows) THEN first + size - 1 ELSE Len(rows)
         IN  [k \in 1..(last - first + 1) |-> InsertRow(i, rows[first + k - 1])]
             \o <<Stmt("GO", NoText, NoText, << >>, << >>)>>
             \o InsertBatches(i, rows, last + 1, size)

IdentityInsert(name, onoff) == Stmt("SET IDENTITY_INSERT", name, onoff, << >>, << >>)

\* Variant of DataTable without the total_rows == 0 test
DataTableNoSkip(d, i, fail) ==
    LET here == fail.tbl = i
        rows == d[i].rows
        comment == <<Stmt("DATA COMMENT", FullName(i), NoText, << >>, << >>)>>
        on == IF d[i].identity THEN <<IdentityInsert(FullName(i), "ON")>> ELSE << >>
        off == IF d[i].identity THEN <<IdentityInsert(FullName(i), "OFF")>> ELSE << >>
    IN  IF here /\ fail.stage = "count" THEN << >>
        ELSE IF here /\ fail.stage = "row"
             THEN comment \o on \o [k \in 1..(fail.row - 1) |-> InsertRow(i, rows[k])]
        ELSE comment \o on \o InsertBatches(i, rows, 1, batch_size) \o off

\* One iteration of the table loop of DataGenerator.generate
DataTable(d, i, fail) ==
    LET here == fail.tbl = i
        rows == d[i].rows
        comment == <<Stmt("DATA COMMENT", FullName(i), NoText, << >>, << >>)>>
        on == IF d[i].identity THEN <<IdentityInsert(FullName(i), "ON")>> ELSE << >>
        off == IF d[i].identity THEN <<IdentityInsert(FullName(i), "OFF")>> ELSE << >>
    IN  IF here /\ fail.stage = "count" THEN << >>
        ELSE IF Len(rows) = 0 THEN << >>
        ELSE IF here /\ fail.stage = "row"
             THEN comment \o on \o [k \in 1..(fail.row - 1) |-> InsertRow(i, rows[k])]
        ELSE comment \o on \o InsertBatches(i, rows, 1, batch_size) \o off

\* DataGenerator.generate: what it appends to the script
DataGenerator(d, fail) ==
    IF fail.stage = "list" THEN << >>
    ELSE <<Banner("data")>>
         \o Concat([i \in 1..Reached(d, fail) |-> DataTable(d, i, fail)])

DataFailures(d) ==
    { Failure("list", 0, 0) }
    \cup { Failure("count", i, 0) : i \in 1..Len(d) }
    \cup { Failure("row", i, k) : i \in 1..Len(d), k \in 1..MaxRows }

\* A failure the run can meet: a row failure needs the row to exist
Possible(d, fail) ==
    fail.stage = "row" => fail.row <= Len(d[fail.tbl].rows)

\* The catalog's dependent objects, derived from the tables of the database:
\* a default and an index on every table's txt column, a trigger on every
\* identity table, one stored procedure, and from every table but the first a
\* two-column foreign key to the first table.
DefaultRows(d) == [i \in 1..Len(d) |-> [name |-> "DF_" \o TableNames[i], tbl |-> i, col |-> "txt"]]

IndexRows(d) == [i \in 1..Len(d) |-> [name |-> "IX_" \o TableNames[i], tbl |-> i, cols |-> <<"txt">>]]

ProcedureRows == <<"usp_Report">>

TriggerRows(d) ==
    LET ids == { i \in 1..Len(d) : d[i].identity }
        RECURSIVE Asc(_, _)
        Asc(i, n) == IF i > n THEN << >>
                     ELSE (IF i \in ids THEN <<[name |-> "trg_" \o TableNames[i], tbl |-> i]>>
                           ELSE << >>) \o Asc(i + 1, n)
    IN  Asc(1, Len(d))

\* sys.foreign_key_columns joined, ORDER BY fk.name, fkc.constraint_column_id
FkRows(d) ==
    Concat([j \in 1..(IF Len(d) = 0 THEN 0 ELSE Len(d) - 1) |->
        LET i == j + 1 IN
        [c \in 1..Len(ColumnNames) |->
            [name |-> "FK_" \o TableNames[i], tbl |-> i, col |-> ColumnNames[c],
             ref |-> 1, ref_col |-> ColumnNames[c]]]])

\* DefaultConstraintGenerator.generate
DefaultConstraintGenerator(d, failed) ==
    IF failed THEN << >>
    ELSE <<Banner("defaults")>>
         \o [k \in 1..Len(DefaultRows(d)) |->
                LET r == DefaultRows(d)[k] IN
                Stmt("DEFAULT", QualifiedName(r.tbl), r.name, <<r.col>>, << >>)]

\* IndexGenerator.generate
IndexGenerator(d, failed) ==
    IF failed THEN << >>
    ELSE <<Banner("indexes")>>
         \o [k \in 1..Len(IndexRows(d)) |->
                LET r == IndexRows(d)[k] IN
                Stmt("INDEX", QualifiedName(r.tbl), r.name, r.cols, << >>)]

\* StoredProcedureGenerator.generate
StoredProcedureGenerator(d, failed) ==
    IF failed THEN << >>
    ELSE <<Banner("procedures")>>
         \o [k \in 1..Len(ProcedureRows) |->
                Stmt("PROCEDURE", NoText, ProcedureRows[k], << >>, << >>)]

\* TriggerGenerator.generate
TriggerGenerator(d, failed) ==
    IF failed THEN << >>
    ELSE <<Banner("triggers")>>
         \o [k \in 1..Len(TriggerRows(d)) |->
                LET r == TriggerRows(d)[k] IN
                Stmt("TRIGGER", QualifiedName(r.tbl), r.name, << >>, << >>)]

\* Variant of GroupFk that opens a group for every row of the query
GroupFkPerRow(rows, groups) ==
    groups \o [k \in 1..Len(rows) |->
        [key |-> <<rows[k].name, rows[k].tbl, rows[k].ref>>, name |-> rows[k].name,
         tbl |-> rows[k].tbl, ref |-> rows[k].ref, cols |-> <<rows[k].col>>,
         ref_cols |-> <<rows[k].ref_col>>]]

\* fk_map.setdefault(key, []).append((col, ref_c)): groups in first-seen order
RECURSIVE GroupFk(_, _)
GroupFk(rows, groups) ==
    IF rows = << >> THEN groups
    ELSE LET r == Head(rows)
             key == <<r.name, r.tbl, r.ref>>
             at == { g \in 1..Len(groups) : groups[g].key = key }
         IN  IF at = {}
             THEN GroupFk(Tail(rows),
                          Append(groups, [key |-> key, name |-> r.name, tbl |-> r.tbl,
                                          ref |-> r.ref, cols |-> <<r.col>>,
                                          ref_cols |-> <<r.ref_col>>]))
             ELSE LET g == CHOOSE x \in at : TRUE IN
                  GroupFk(Tail(rows),
                          [groups EXCEPT ![g].cols = Append(@, r.col),
                                         ![g].ref_cols = Append(@, r.ref_col)])

\* ForeignKeyGenerator.generate
ForeignKeyGenerator(d, failed) ==
    IF failed THEN << >>
    ELSE LET fk_map == GroupFk(FkRows(d), << >>) IN
         <<Banner("foreign keys")>>
         \o [k \in 1..Len(fk_map) |->
                Stmt("FOREIGN KEY", QualifiedName(fk_map[k].tbl), fk_map[k].name,
                     fk_map[k].cols, <<QualifiedName(fk_map[k].ref)>> \o fk_map[k].ref_cols)]

-----------------------------------------------------------------------------
(* Legacy implementation: strategies/sqlserver_strategy.py                 *)

\* The output of one sqlcmd run of _generate_table_ddl, written in one piece
generate_table_ddl(d, i) ==
    <<Stmt("DROP TABLE", QualifiedName(i), NoText, << >>, << >>),
      Stmt("CREATE TABLE", QualifiedName(i), NoText, ColumnNames, << >>)>>
    \o (IF d[i].identity
        THEN <<Stmt("PRIMARY KEY", QualifiedName(i), "PK_" \o TableNames[i], <<"id">>, << >>)>>
        ELSE << >>)

\* _generate_schema: what it appends to the script
generate_schema(d, fail) ==
    IF fail.stage = "list" THEN <<Banner("schema")>>
    ELSE <<Banner("schema")>>
         \o Concat([i \in 1..(Reached(d, fail) - Cost(fail)) |-> generate_table_ddl(d, i)])

LegacySchemaFailures(d) ==
    { Failure("list", 0, 0) } \cup { Failure("ddl", i, 0) : i \in 1..Len(d) }

\* bcp out -c -t, -r\n : fields joined by commas, one line per row, no escaping
BcpFile(rows) ==
    Concat([k \in 1..Len(rows) |->
              Join([c \in 1..Len(rows[k]) |-> rows[k][c].text], <<",">>) \o <<"\n">>])

\* file.readlines(): the lines of the file, without a line for the final newline
ReadLines(text) ==
    LET parts == Split(text, "\n")
    IN  IF parts[Len(parts)] = << >> THEN SubSeq(parts, 1, Len(parts) - 1) ELSE parts

NullText == <<"N", "U", "L", "L">>
TextTypes == {"varchar", "char", "nvarchar", "nchar", "text", "ntext"}
DateTypes == {"datetime", "date", "datetime2", "smalldatetime"}

\* The per-value rule of _generate_table_inserts_safe, by column type
LegacyFormat(value, type) ==
    IF value = NullText THEN <<"NULL">>
    ELSE IF type \in TextTypes THEN <<"'">> \o EscapeQuotes(value) \o <<"'">>
    ELSE IF type \in DateTypes THEN <<"'">> \o value \o <<"'">>
    ELSE IF type = "bit"
    THEN (IF value = <<"T", "r", "u", "e">> \/ value = <<"1">> THEN <<"1">> ELSE <<"0">>)
    ELSE value

\* The INSERT built from one line of the bcp file; columns: the column list
\* the columns query gave (empty when that query failed)
LegacyInsert(i, line, columns) ==
    LET values == Split(Strip(line), ",")
        n == IF Len(values) < Len(columns) THEN Len(values) ELSE Len(columns)
    IN  Stmt("INSERT", QualifiedName(i), NoText, Take(columns, Len(values)),
             [c \in 1..n |-> LegacyFormat(values[c], ColumnTypes[c])])

legacy_batch_size == 100

RECURSIVE LegacyBatches(_, _, _, _, _)
LegacyBatches(i, lines, columns, first, size) ==
    IF first > Len(lines) THEN << >>
    ELSE LET last == IF first + size - 1 < Len(lines) THEN first + size - 1 ELSE Len(lines)
         IN  Concat([k \in 1..(last - first + 1) |->
                       IF Strip(lines[first + k - 1]) = << >> THEN << >>
                       ELSE <<LegacyInsert(i, lines[first + k - 1], columns)>>])
             \o <<Stmt("GO", NoText, NoText, << >>, << >>)>>
             \o LegacyBatches(i, lines, columns, last + 1, size)

\* _generate_table_inserts_fallback: building insert_query evaluates {col},
\* a name the method never binds; the NameError is caught and nothing is written
generate_table_inserts_fallback(d, i) == << >>

LegacyTableOutcomes == {"ok", "count", "bcp", "columns"}

\* _generate_table_inserts_safe: what it appends to the script.
\* outcome: "count" - the count query gave no number; "bcp" - bcp failed;
\* "columns" - the columns query gave no output
generate_table_inserts_safe(d, i, outcome) ==
    LET rows == d[i].rows
        columns == IF outcome = "columns" THEN << >> ELSE ColumnNames
        on == IF d[i].identity THEN <<IdentityInsert(QualifiedName(i), "ON")>> ELSE << >>
        off == IF d[i].identity THEN <<IdentityInsert(QualifiedName(i), "OFF")>> ELSE << >>
    IN  IF outcome = "count" \/ Len(rows) = 0 THEN << >>
        ELSE IF outcome = "bcp" THEN generate_table_inserts_fallback(d, i)
        ELSE <<Stmt("DATA COMMENT", QualifiedName(i), NoText, << >>, << >>)>>
             \o on
             \o LegacyBatches(i, ReadLines(BcpFile(rows)), columns, 1, legacy_batch_size)
             \o off

\* _generate_data: what it appends to the script.  outcomes: one per table;
\* listed: FALSE when the table-listing sqlcmd run gave no output
generate_data(d, listed, outcomes) ==
    <<Banner("data")>>
    \o (IF listed
        THEN Concat([i \in 1..Len(d) |-> generate_table_inserts_safe(d, i, outcomes[i])])
        ELSE << >>)

OutcomeCost(outcomes) == Cardinality({ i \in DOMAIN outcomes : outcomes[i] # "ok" })

-----------------------------------------------------------------------------
(* Credentials: ConfigRepository._resolve_credential                       *)

StartsWith(text, prefix) ==
    Len(text) >= Len(prefix) /\ SubSeq(text, 1, Len(prefix)) = prefix

EndsWith(text, suffix) ==
    Len(text) >= Len(suffix)
    /\ SubSeq(text, Len(text) - Len(suffix) + 1, Len(text)) = suffix

\* os.getenv(env_var, ""): env is the variable's value, << >> when it is unset
resolve_credential(value, env) ==
    IF StartsWith(value, <<"$", "{">>) /\ EndsWith(value, <<"}">>) THEN env ELSE value

\* '${' in text
HasPlaceholder(text) ==
    \E i \in 1..(Len(text) - 1) : text[i] = "$" /\ text[i + 1] = "{"

\* The password entries a config.json may hold and the values the environment
\* may give the variable they name
RawPasswords == { <<"$", "{", "P", "}">>, <<"x", "$", "{", "P", "}">> }
EnvValues == { <<"p", "w">>, << >> }

-----------------------------------------------------------------------------
(* The job: SQLServerBackupStrategy.backup                                 *)

BackupResult(success, output_file, error) ==
    [returned |-> TRUE, success |-> success, output_file |-> output_file, error |-> error]

ScriptPath == "script.sql"

Call(phase, ok) == [phase |-> phase, ok |-> ok]

Init ==
    /\ impl \in {"modular", "legacy"}
    /\ db \in Databases
    /\ password \in { resolve_credential(r, e) : r \in RawPasswords, e \in EnvValues }
    /\ pc = "start"
    /\ conn = "none"
    /\ attempts = 0
    /\ exists = FALSE
    /\ script = << >>
    /\ phases = << >>
    /\ result = NoResult
    /\ faults = 0
    /\ NoService
    /\ NoFunction

Header == <<Banner("header"), Stmt("USE", NoText, NoText, << >>, << >>)>>

\* Variant of Return without the finally clause: the connection stays as it is
ReturnLeavingOpen(r, closing) ==
    /\ result' = r
    /\ pc' = "done"
    /\ conn' = conn

\* return BackupResult(...) from backup(); closing: the finally clause runs
Return(r, closing) ==
    /\ result' = r
    /\ pc' = "done"
    /\ conn' = IF closing THEN "closed" ELSE conn

\* Variant of ModularOrder with the foreign keys before the triggers
ModularOrderForeignKeysFirst ==
    <<"schema", "data", "defaults", "indexes", "procedures", "foreign keys", "triggers">>

\* The order of the generate() calls in the modular backup()
ModularOrder ==
    <<"schema", "data", "defaults", "indexes", "procedures", "triggers", "foreign keys">>

After(phase) ==
    LET k == CHOOSE j \in 1..Len(ModularOrder) : ModularOrder[j] = phase
    IN  IF k = Len(ModularOrder) THEN "return" ELSE ModularOrder[k + 1]

\* Variant of M_Connect that tries again after a failed attempt
M_ConnectRetrying ==
    /\ process = "running"
    /\ impl = "modular" /\ pc = "start"
    /\ attempts' = attempts + 1
    /\ \E ok \in BOOLEAN :
        /\ faults' = faults + (IF ok THEN 0 ELSE 1)
        /\ faults' <= MaxFaults
        /\ IF ok
           THEN /\ conn' = "open" /\ pc' = "header" /\ result' = result
           ELSE UNCHANGED <<conn, pc, result>>
    /\ UNCHANGED <<impl, db, password, exists, script, phases>>
    /\ UNCHANGED <<svcvars, funvars>>

\* Modular backup(), lines 24-27: conn = self._connect(...)
M_Connect ==
    /\ process = "running"
    /\ impl = "modular" /\ pc = "start"
    /\ attempts' = attempts + 1
    /\ \E ok \in BOOLEAN :
        /\ faults' = faults + (IF ok THEN 0 ELSE 1)
        /\ faults' <= MaxFaults
        /\ IF ok
           THEN /\ conn' = "open" /\ pc' = "header" /\ result' = result
           ELSE Return(BackupResult(FALSE, None, "Connection failed"), FALSE)
    /\ UNCHANGED <<impl, db, password, exists, script, phases>>
    /\ UNCHANGED <<svcvars, funvars>>

HeaderOutcomes == {"ok", "open", "write"}

\* Modular backup(), lines 30-34: the header, opened with mode "w"
M_Header ==
    /\ process = "running"
    /\ impl = "modular" /\ pc = "header"
    /\ \E out \in HeaderOutcomes :
        /\ faults' = faults + (IF out = "ok" THEN 0 ELSE 1)
        /\ faults' <= MaxFaults
        /\ exists' = (out # "open")
        /\ script' = IF out = "ok" THEN Header ELSE << >>
        /\ IF out = "ok"
           THEN /\ pc' = ModularOrder[1] /\ UNCHANGED <<conn, result>>
           ELSE Return(BackupResult(FALSE, None, "exception"), TRUE)
    /\ UNCHANGED <<impl, db, password, attempts, phases>>
    /\ UNCHANGED <<svcvars, funvars>>

\* Variant of M_Proceed in which a failing generate() lets its exception out,
\* so that backup() ends in its handler with a failed result
M_ProceedRaising(phase, ok) ==
    /\ phases' = Append(phases, Call(phase, ok))
    /\ IF ok
       THEN /\ pc' = After(phase) /\ UNCHANGED <<conn, result>>
       ELSE Return(BackupResult(FALSE, None, "exception"), TRUE)

\* The modular backup() after a generate() call that returned ok: the return
\* value is discarded and the next call follows
M_Proceed(phase, ok) ==
    /\ pc' = After(phase)
    /\ phases' = Append(phases, Call(phase, ok))
    /\ UNCHANGED <<conn, result>>

\* Modular backup(), line 46: schema.generate(conn, script_file)
M_Schema ==
    /\ process = "running"
    /\ impl = "modular" /\ pc = "schema"
    /\ \E fail \in {NoFailure} \cup SchemaFailures(db) :
        /\ faults' = faults + Cost(fail)
        /\ faults' <= MaxFaults
        /\ script' = script \o SchemaGenerator(db, fail)
        /\ M_Proceed("schema", fail = NoFailure)
    /\ UNCHANGED <<impl, db, password, attempts, exists>>
    /\ UNCHANGED <<svcvars, funvars>>

\* Modular backup(), line 47: data.generate(conn, script_file)
M_Data ==
    /\ process = "running"
    /\ impl = "modular" /\ pc = "data"
    /\ \E fail \in {NoFailure} \cup DataFailures(db) :
        /\ Possible(db, fail)
        /\ faults' = faults + Cost(fail)
        /\ faults' <= MaxFaults
        /\ script' = script \o DataGenerator(db, fail)
        /\ M_Proceed("data", fail = NoFailure)
    /\ UNCHANGED <<impl, db, password, attempts, exists>>
    /\ UNCHANGED <<svcvars, funvars>>

DependentPhases == {"defaults", "indexes", "procedures", "triggers", "foreign keys"}

DependentGenerator(phase, d, failed) ==
    CASE phase = "defaults" -> DefaultConstraintGenerator(d, failed)
      [] phase = "indexes" -> IndexGenerator(d, failed)
      [] phase = "procedures" -> StoredProcedureGenerator(d, failed)
      [] phase = "triggers" -> TriggerGenerator(d, failed)
      [] phase = "foreign keys" -> ForeignKeyGenerator(d, failed)

\* Modular backup(), lines 48-52: the dependent-object generators
M_Dependent ==
    /\ process = "running"
    /\ impl = "modular" /\ pc \in DependentPhases
    /\ \E failed \in BOOLEAN :
        /\ faults' = faults + (IF failed THEN 1 ELSE 0)
        /\ faults' <= MaxFaults
        /\ script' = script \o DependentGenerator(pc, db, failed)
        /\ M_Proceed(pc, ~failed)
    /\ UNCHANGED <<impl, db, password, attempts, exists>>
    /\ UNCHANGED <<svcvars, funvars>>

\* Modular backup(), lines 54-60: the success result; finally closes conn
M_Return ==
    /\ process = "running"
    /\ impl = "modular" /\ pc = "return"
    /\ Return(BackupResult(TRUE, ScriptPath, None), TRUE)
    /\ UNCHANGED <<impl, db, password, attempts, exists, script, phases, faults>>
    /\ UNCHANGED <<svcvars, funvars>>

\* Legacy backup(), lines 27-57: tools and credentials, before anything is written
L_Validate ==
    /\ process = "running"
    /\ impl = "legacy" /\ pc = "start"
    /\ \E sqlcmd \in BOOLEAN :
        /\ faults' = faults + (IF sqlcmd THEN 0 ELSE 1)
        /\ faults' <= MaxFaults
        /\ IF ~sqlcmd
           THEN Return(BackupResult(FALSE, None, "La herramienta sqlcmd no esta instalada"), FALSE)
           ELSE IF User = << >> \/ password = << >>
           THEN Return(BackupResult(FALSE, None, "Usuario o contrasena no configurados"), FALSE)
           ELSE IF HasPlaceholder(User) \/ HasPlaceholder(password)
           THEN Return(BackupResult(FALSE, None, "Variables de entorno no resueltas correctamente"), FALSE)
           ELSE /\ pc' = "header" /\ UNCHANGED <<conn, result>>
    /\ UNCHANGED <<impl, db, password, attempts, exists, script, phases>>
    /\ UNCHANGED <<svcvars, funvars>>

\* Legacy backup(), lines 59-69 and the handler of lines 112-123: an exception
\* on the way unlinks script_file when it exists
L_Header ==
    /\ process = "running"
    /\ impl = "legacy" /\ pc = "header"
    /\ \E out \in HeaderOutcomes :
        /\ faults' = faults + (IF out = "ok" THEN 0 ELSE 1)
        /\ faults' <= MaxFaults
        /\ exists' = (out = "ok")
        /\ script' = IF out = "ok" THEN Header ELSE << >>
        /\ IF out = "ok"
           THEN /\ pc' = "schema" /\ UNCHANGED <<conn, result>>
           ELSE Return(BackupResult(FALSE, None, "exception"), FALSE)
    /\ UNCHANGED <<impl, db, password, attempts, phases>>
    /\ UNCHANGED <<svcvars, funvars>>

\* Variant of L_Proceed in which the failed return goes through the handler
\* that unlinks script_file
L_ProceedUnlink(phase, ok, next, error, written) ==
    /\ phases' = Append(phases, Call(phase, ok))
    /\ script' = IF ok THEN script \o written ELSE << >>
    /\ exists' = IF ok THEN exists ELSE FALSE
    /\ IF ok
       THEN /\ pc' = next /\ UNCHANGED <<conn, result>>
       ELSE Return(BackupResult(FALSE, None, error), FALSE)

\* Legacy backup() after _generate_schema / _generate_data returned ok, having
\* appended `written`: False ends the job with a failed result through a plain
\* return, which leaves the file as it is
L_Proceed(phase, ok, next, error, written) ==
    /\ phases' = Append(phases, Call(phase, ok))
    /\ script' = script \o written
    /\ exists' = exists
    /\ IF ok
       THEN /\ pc' = next /\ UNCHANGED <<conn, result>>
       ELSE Return(BackupResult(FALSE, None, error), FALSE)

\* Legacy backup(), lines 71-78: _generate_schema
L_Schema ==
    /\ process = "running"
    /\ impl = "legacy" /\ pc = "schema"
    /\ \E fail \in {NoFailure} \cup LegacySchemaFailures(db) :
        /\ faults' = faults + Cost(fail)
        /\ faults' <= MaxFaults
        /\ L_Proceed("schema", fail = NoFailure, "data",
                     "Error al generar estructura de la BD", generate_schema(db, fail))
    /\ UNCHANGED <<impl, db, password, attempts>>
    /\ UNCHANGED <<svcvars, funvars>>

\* Legacy backup(), lines 80-87: _generate_data.  raised: an exception inside
\* _generate_data after its banner (a sqlcmd timeout), which makes it return
\* False; listed: the table-listing sqlcmd run gave output
L_Data ==
    /\ process = "running"
    /\ impl = "legacy" /\ pc = "data"
    /\ \E raised \in BOOLEAN, listed \in BOOLEAN, outcomes \in [1..Len(db) -> LegacyTableOutcomes] :
        /\ raised => ~listed
        /\ ~listed => \A i \in 1..Len(db) : outcomes[i] = "ok"
        /\ faults' = faults + (IF listed THEN OutcomeCost(outcomes) ELSE 1)
        /\ faults' <= MaxFaults
        /\ L_Proceed("data", ~raised, "return",
                     "Error al generar datos de la BD", generate_data(db, listed, outcomes))
    /\ UNCHANGED <<impl, db, password, attempts>>
    /\ UNCHANGED <<svcvars, funvars>>

\* Legacy backup(), lines 89-98: the file exists, the success result
L_Return ==
    /\ process = "running"
    /\ impl = "legacy" /\ pc = "return"
    /\ Return(BackupResult(TRUE, ScriptPath, None), FALSE)
    /\ UNCHANGED <<impl, db, password, attempts, exists, script, phases, faults>>
    /\ UNCHANGED <<svcvars, funvars>>

Next ==
    \/ M_Connect \/ M_Header \/ M_Schema \/ M_Data \/ M_Dependent \/ M_Return
    \/ L_Validate \/ L_Header \/ L_Schema \/ L_Data \/ L_Return

Spec == Init /\ [][Next]_vars

-----------------------------------------------------------------------------
(* CleanupService.cleanup_old_backups                                      *)

\* A file of a backup directory: its name and its modification time, in days
File(dir, name, mtime) == [dir |-> dir, name |-> name, mtime |-> mtime]

\* patterns = ['*.sql', '*.bak', '*.sql.gz', '*.bak.gz', '*.dump']: each is a
\* star followed by this suffix
patterns ==
    << <<".", "s", "q", "l">>,
       <<".", "b", "a", "k">>,
       <<".", "s", "q", "l", ".", "g", "z">>,
       <<".", "b", "a", "k", ".", "g", "z">>,
       <<".", "d", "u", "m", "p">> >>

\* Variant of Glob that matches every entry of the directory
GlobEverything(listing, pattern) == listing

\* backup_dir.glob(pattern): the entries of the directory whose name the
\* pattern matches
Glob(listing, pattern) == { f \in listing : EndsWith(f.name, pattern) }

AnnualMark == <<"A", "N", "N", "U", "A", "L", "_">>

\* Variant of Unlinked without the test of the name: age alone decides
UnlinkedWhateverName(matched, cutoff_date) ==
    { f \in matched : f.mtime < cutoff_date }

\* The body of the inner loop for the files of one pattern: the files it unlinks
Unlinked(matched, cutoff_date) ==
    { f \in matched : ~StartsWith(f.name, AnnualMark) /\ f.mtime < cutoff_date }

\* The loops over the patterns, from pattern k on: the directory as it is left
\* and the value of deleted_count
RECURSIVE Sweep(_, _, _, _)
Sweep(listing, k, cutoff_date, deleted_count) ==
    IF k > Len(patterns) THEN [listing |-> listing, deleted_count |-> deleted_count]
    ELSE LET gone == Unlinked(Glob(listing, patterns[k]), cutoff_date)
         IN  Sweep(listing \ gone, k + 1, cutoff_date, deleted_count + Cardinality(gone))

\* cleanup_old_backups(backup_dir) with the directory existing or not, holding
\* `listing`, at day `now`
cleanup_old_backups(dir_exists, listing, retention_days, now) ==
    IF ~dir_exists THEN [listing |-> listing, deleted_count |-> 0]
    ELSE Sweep(listing, 1, now - retention_days, 0)

-----------------------------------------------------------------------------
(* BackupStrategyFactory and the strategies that run an external dump tool *)

LowerCase(c) ==
    CASE c = "M" -> "m" [] c = "S" -> "s" [] c = "Q" -> "q" [] c = "L" -> "l"
      [] OTHER -> c

\* str.lower()
Lower(text) == [i \in 1..Len(text) |-> LowerCase(text[i])]

\* BackupStrategyFactory._strategies: type name and strategy class; "legacy"
\* is sqlserver_strategy.SQLServerBackupStrategy, the class the module imports
strategies ==
    { << <<"m", "y", "s", "q", "l">>, "mysql" >>,
      << <<"m", "a", "r", "i", "a", "d", "b">>, "mysql" >>,
      << <<"p", "o", "s", "t", "g", "r", "e", "s", "q", "l">>, "postgresql" >>,
      << <<"p", "o", "s", "t", "g", "r", "e", "s">>, "postgresql" >>,
      << <<"s", "q", "l", "s", "e", "r", "v", "e", "r">>, "legacy" >>,
      << <<"m", "s", "s", "q", "l">>, "legacy" >> }

\* Variant of create that falls back on the SQL Server strategy for a type
\* it does not know
CreateWithFallback(db_type) ==
    IF \E e \in strategies : e[1] = Lower(db_type)
    THEN (CHOOSE e \in strategies : e[1] = Lower(db_type))[2]
    ELSE "legacy"

\* BackupStrategyFactory.create(db_type)
create(db_type) ==
    IF \E e \in strategies : e[1] = Lower(db_type)
    THEN (CHOOSE e \in strategies : e[1] = Lower(db_type))[2]
    ELSE None

DumpOutcomes == {"ok", "tool", "open", "returncode", "timeout", "unlink"}

\* result.stderr of a failed dump: the tool may have written nothing
Stderr == {"", "Access denied"}

\* MySQLBackupStrategy.backup and PostgreSQLBackupStrategy.backup, which differ
\* in the command line only.  "unlink": the dump failed and so did the removal
\* of the output file, an exception that leaves backup()
dump_backup(tool_error) ==
    \E o \in DumpOutcomes, stderr \in Stderr :
        /\ o # "returncode" => stderr = ""
        /\ faults' = faults + (IF o = "ok" THEN 0 ELSE 1)
        /\ faults' <= MaxFaults
        /\ exists' = (o \in {"ok", "unlink"})
        /\ script' = IF o \in {"ok", "unlink"} THEN <<Stmt("DUMP", NoText, NoText, << >>, << >>)>>
                     ELSE << >>
        /\ CASE o = "ok" -> Return(BackupResult(TRUE, ScriptPath, None), FALSE)
             [] o = "tool" -> Return(BackupResult(FALSE, None, tool_error), FALSE)
             [] o = "open" -> Return(BackupResult(FALSE, None, "exception"), FALSE)
             [] o = "returncode" -> Return(BackupResult(FALSE, None, stderr), FALSE)
             [] o = "timeout" ->
                    Return(BackupResult(FALSE, None, "Timeout: El backup tardo mas de 1 hora"), FALSE)
             [] o = "unlink" -> /\ pc' = "raised" /\ UNCHANGED <<conn, result>>

MySQL_Backup ==
    /\ process = "running"
    /\ impl = "mysql" /\ pc = "start"
    /\ dump_backup("La herramienta mysqldump no esta instalada")
    /\ UNCHANGED <<impl, db, password, attempts, phases>>
    /\ UNCHANGED <<svcvars, funvars>>

PostgreSQL_Backup ==
    /\ process = "running"
    /\ impl = "postgresql" /\ pc = "start"
    /\ dump_backup("La herramienta pg_dump no esta instalada")
    /\ UNCHANGED <<impl, db, password, attempts, phases>>
    /\ UNCHANGED <<svcvars, funvars>>

-----------------------------------------------------------------------------
(* BackupService, BackupStrategy.execute_backup and SchedulerService       *)

MaxDatabases == 2
MaxRuns == 2

\* BackupSettings.retention_days as ConfigRepository.get_backup_settings gives it
retention_days == 7

\* db_config.type of the configured databases
Types ==
    { <<"s", "q", "l", "s", "e", "r", "v", "e", "r">>,
      <<"M", "S", "S", "Q", "L">>,
      <<"m", "y", "s", "q", "l">>,
      <<"p", "o", "s", "t", "g", "r", "e", "s">>,
      <<"o", "r", "a", "c", "l", "e">> }

DatabaseConfig(type, enabled) == [type |-> type, enabled |-> enabled]

\* The entries of "databases" in config.json; the type of a disabled entry is
\* never looked at
DatabaseConfigs ==
    { DatabaseConfig(t, TRUE) : t \in Types }
        \cup { DatabaseConfig(<<"s", "q", "l", "s", "e", "r", "v", "e", "r">>, FALSE) }

Configurations == UNION { [1..n -> DatabaseConfigs] : n \in 1..MaxDatabases }

Digit == <<"1", "2", "3", "4", "5", "6", "7", "8", "9">>

\* db_config.name of the i-th configured database
Name(i) == <<"d", Digit[i]>>

\* The database every SQL Server job of the service reads
ServiceDatabase == <<[identity |-> TRUE, rows |-> <<PlainRow>>]>>

\* Files a backup directory may hold before the service runs
Preexisting ==
    { File("Backups", AnnualMark \o <<"2", "0", ".", "s", "q", "l">>, 0),
      File("Backups", <<"n", "o", "t", "e", "s", ".", "t", "x", "t">>, 0) }

\* prefix = f"ANNUAL_{year}_" or ""
Prefix(is_annual) == IF is_annual THEN AnnualMark \o <<"2", "6", "_">> ELSE << >>

\* output_file = backup_dir / f"{prefix}{db_config.name}_{timestamp}.sql";
\* the number of the run stands for the timestamp
OutputFile(is_annual, i, now, run) ==
    File(IF is_annual THEN "Annual" ELSE "Backups",
         Prefix(is_annual) \o Name(i) \o <<"_", Digit[run]>> \o <<".", "s", "q", "l">>,
         now)

\* A BackupResult as the service holds it
ServiceResult(i, r, file) ==
    [database_name |-> Name(i), success |-> r.success,
     output_file |-> IF r.output_file = None THEN None ELSE file.name,
     error |-> r.error]

ServiceInit ==
    /\ impl = "none"
    /\ db = ServiceDatabase
    /\ password \in { resolve_credential(<<"$", "{", "P", "}">>, e) : e \in EnvValues }
    /\ pc = "none"
    /\ conn = "none"
    /\ attempts = 0
    /\ exists = FALSE
    /\ script = << >>
    /\ phases = << >>
    /\ result = NoResult
    /\ faults = 0
    /\ databases \in Configurations
    /\ svc = NoCall
    /\ results = << >>
    /\ files \in {{}, Preexisting}
    /\ process = "running"
    /\ NoFunction

Idle == process = "running" /\ svc.op = "none"

\* backup_all_databases(is_annual), lines 48-53
BackupAllDatabases ==
    /\ Idle
    /\ svc.runs + svc.scheduled < MaxRuns
    /\ \E is_annual \in BOOLEAN :
        svc' = [svc EXCEPT !.op = "backup_all_databases", !.is_annual = is_annual,
                           !.at = 1, !.runs = @ + 1, !.deleted = 0]
    /\ results' = << >>
    /\ UNCHANGED <<jobvars, databases, files, process, funvars>>

InLoop ==
    /\ process = "running"
    /\ svc.op = "backup_all_databases"
    /\ pc = "none"
    /\ svc.at <= Len(databases)

\* backup_all_databases, lines 55-58: a disabled database is passed over
SkipDisabled ==
    /\ InLoop
    /\ ~databases[svc.at].enabled
    /\ svc' = [svc EXCEPT !.at = @ + 1]
    /\ UNCHANGED <<jobvars, databases, results, files, process, funvars>>

\* _backup_single_database, lines 88-97: no strategy for the type
Unsupported ==
    /\ InLoop
    /\ databases[svc.at].enabled
    /\ create(databases[svc.at].type) = None
    /\ results' = Append(results,
            [database_name |-> Name(svc.at), success |-> FALSE, output_file |-> None,
             error |-> "Tipo de base de datos no soportado"])
    /\ svc' = [svc EXCEPT !.at = @ + 1]
    /\ UNCHANGED <<jobvars, databases, files, process, funvars>>

\* _backup_single_database, lines 89 and 99-118, and execute_backup up to its
\* call of backup(): the job of the strategy begins
BackupSingleDatabase ==
    /\ InLoop
    /\ databases[svc.at].enabled
    /\ create(databases[svc.at].type) # None
    /\ impl' = create(databases[svc.at].type)
    /\ pc' = "start"
    /\ conn' = "none" /\ attempts' = 0 /\ exists' = FALSE /\ script' = << >>
    /\ phases' = << >> /\ result' = NoResult
    /\ UNCHANGED <<db, password, faults, svcvars, funvars>>

\* Variant of execute_backup whose except clause keeps the path of the job
\* in the failed result
ExecuteBackupKeepingFile(file) ==
    /\ results' = Append(results,
            IF pc = "raised" \/ (result.success /\ ~exists)
            THEN [database_name |-> Name(svc.at), success |-> FALSE,
                  output_file |-> file.name, error |-> "exception"]
            ELSE ServiceResult(svc.at, result, file))
    /\ svc' = [svc EXCEPT !.at = @ + 1]
    /\ process' = process

\* Variant of execute_backup after which a failed job ends the loop over the
\* databases
ExecuteBackupStoppingAtFailure(file) ==
    /\ results' = Append(results,
            IF pc = "raised" \/ (result.success /\ ~exists)
            THEN [database_name |-> Name(svc.at), success |-> FALSE, output_file |-> None,
                  error |-> "exception"]
            ELSE ServiceResult(svc.at, result, file))
    /\ svc' = [svc EXCEPT !.at = IF pc = "raised" \/ ~result.success
                                 THEN Len(databases) + 1 ELSE @ + 1]
    /\ process' = process

\* Variant of execute_backup without its except clause: an exception of
\* backup() leaves execute_backup and ends the process
ExecuteBackupRaising(file) ==
    IF pc = "raised"
    THEN /\ process' = "crashed" /\ UNCHANGED <<results, svc>>
    ELSE /\ results' = Append(results, ServiceResult(svc.at, result, file))
         /\ svc' = [svc EXCEPT !.at = @ + 1]
         /\ process' = process

\* execute_backup, lines 48-71, after backup() returned or raised: the result
\* of the job, or a failed result made of the exception; output_file.stat()
\* of a successful job raises when the file is not there
execute_backup(file) ==
    /\ results' = Append(results,
            IF pc = "raised" \/ (result.success /\ ~exists)
            THEN [database_name |-> Name(svc.at), success |-> FALSE, output_file |-> None,
                  error |-> "exception"]
            ELSE ServiceResult(svc.at, result, file))
    /\ svc' = [svc EXCEPT !.at = @ + 1]
    /\ process' = process

\* The job of databases[svc.at] has ended: execute_backup returns to
\* _backup_single_database and to the loop of backup_all_databases, line 61
ExecuteBackup ==
    /\ process = "running"
    /\ svc.op = "backup_all_databases"
    /\ pc \in {"done", "raised"}
    /\ LET file == OutputFile(svc.is_annual, svc.at, svc.now, svc.runs)
       IN  /\ execute_backup(file)
           /\ files' = IF exists THEN files \cup {file} ELSE files
    /\ pc' = "none"
    /\ UNCHANGED <<impl, db, password, conn, attempts, exists, script, phases, result, faults>>
    /\ UNCHANGED <<databases, funvars>>

\* Variant of FinishRun that sweeps after an annual run as well
FinishRunSweepingAlways(swept) ==
    /\ files' = { f \in files : f.dir # "Backups" } \cup swept.listing
    /\ svc' = [svc EXCEPT !.op = "none", !.deleted = swept.deleted_count]

\* backup_all_databases, lines 63-73, with `swept` what cleanup_old_backups
\* would leave of Config.BACKUP_DIR: cleanup after a daily run only
FinishRun(swept) ==
    IF svc.is_annual
    THEN /\ files' = files
         /\ svc' = [svc EXCEPT !.op = "none", !.deleted = 0]
    ELSE /\ files' = { f \in files : f.dir # "Backups" } \cup swept.listing
         /\ svc' = [svc EXCEPT !.op = "none", !.deleted = swept.deleted_count]

\* backup_all_databases after its loop: cleanup, summary and return results
FinishBackupAll ==
    /\ process = "running"
    /\ svc.op = "backup_all_databases"
    /\ pc = "none"
    /\ svc.at > Len(databases)
    /\ FinishRun(cleanup_old_backups(TRUE, { f \in files : f.dir = "Backups" },
                                     retention_days, svc.now))
    /\ UNCHANGED <<jobvars, databases, results, process, funvars>>

\* More than retention_days days go by between two runs
TimePasses ==
    /\ Idle
    /\ svc.now < svc.runs * (retention_days + 1)
    /\ svc' = [svc EXCEPT !.now = @ + retention_days + 1]
    /\ UNCHANGED <<jobvars, databases, results, files, process, funvars>>

\* SchedulerService._run_daily_backup_job: should_create_annual_backup() reads
\* backup_settings.annual_backup_enabled, which BackupSettings does not have;
\* the AttributeError is caught by the except clause of lines 124-125 and the
\* method returns without a backup
RunDailyBackupJob ==
    /\ Idle
    /\ svc.runs + svc.scheduled < MaxRuns
    /\ svc' = [svc EXCEPT !.scheduled = @ + 1]
    /\ UNCHANGED <<jobvars, databases, results, files, process, funvars>>

\* SchedulerService.start, called by main() once the services are built:
\* line 38 reads backup_settings.annual_backup_enabled, the AttributeError
\* leaves start() and main() ends the process
Start ==
    /\ Idle
    /\ svc.runs = 0 /\ svc.scheduled = 0
    /\ process' = "crashed"
    /\ UNCHANGED <<jobvars, databases, svc, results, files, funvars>>

\* SIGINT or SIGTERM: _signal_handler calls _shutdown, which calls sys.exit(0);
\* the SystemExit is raised where the main thread stands and no except
\* Exception clause on the way catches it
Signal ==
    /\ process = "running"
    /\ process' = "exited"
    /\ UNCHANGED <<jobvars, databases, svc, results, files, funvars>>

ServiceNext ==
    \/ BackupAllDatabases \/ SkipDisabled \/ Unsupported \/ BackupSingleDatabase
    \/ L_Validate \/ L_Header \/ L_Schema \/ L_Data \/ L_Return
    \/ MySQL_Backup \/ PostgreSQL_Backup
    \/ ExecuteBackup \/ FinishBackupAll
    \/ TimePasses \/ RunDailyBackupJob \/ Start \/ Signal

ServiceSpec == ServiceInit /\ [][ServiceNext]_vars

-----------------------------------------------------------------------------
(* CleanupService.cleanup_old_backups on a directory tree, called once     *)

MaxFiles == 2

\* datetime.now() at the call, in days
Today == 10

\* File names: with the prefix of the annual backups, with the same prefix in
\* lower case or without it, and with an extension of the patterns or another
NamePrefixes ==
    { AnnualMark, <<"a", "n", "n", "u", "a", "l", "_">>, <<"d", "1">> }

NameExtensions ==
    { patterns[k] : k \in 1..Len(patterns) }
        \cup { <<".", "t", "x", "t">>, <<".", "g", "z">> }

\* Files of the directory and of a directory below it, modified before the
\* cutoff or exactly at it
CandidateFiles ==
    { File(d, p \o e, m) :
        d \in {"Backups", "Backups/old"}, p \in NamePrefixes, e \in NameExtensions,
        m \in {Today - retention_days - 1, Today - retention_days} }

\* The directory trees of at most MaxFiles files
Trees ==
    UNION { { { s[i] : i \in 1..n } : s \in [1..n -> CandidateFiles] } : n \in 0..MaxFiles }

\* The entries a glob without "**" looks at: the files directly in the directory
Entries(tree, dir) == { f \in tree : f.dir = dir }

CleanupInit ==
    /\ NoJob
    /\ NoService
    /\ \E dir_exists \in BOOLEAN, tree \in Trees :
        /\ ~dir_exists => tree = {}
        /\ arg = [dir_exists |-> dir_exists, tree |-> tree]
    /\ ret = NotCalled

\* cleanup_old_backups(Config.BACKUP_DIR): what is left on disk and the value
\* returned
CleanupOldBackups ==
    /\ ret = NotCalled
    /\ LET swept == cleanup_old_backups(arg.dir_exists, Entries(arg.tree, "Backups"),
                                        retention_days, Today)
       IN  ret' = [by |-> "cleanup_old_backups",
                   tree |-> (arg.tree \ Entries(arg.tree, "Backups")) \cup swept.listing,
                   deleted_count |-> swept.deleted_count]
    /\ UNCHANGED <<jobvars, svcvars, arg>>

CleanupNext == CleanupOldBackups

CleanupSpec == CleanupInit /\ [][CleanupNext]_vars

-----------------------------------------------------------------------------
(* BackupSettings.__post_init__ and _validate_time_format on a text        *)

MaxTimeLen == 5

\* The characters of the schedule texts
TimeAlphabet == {"0", "2", "3", "5", "9", ":", "-"}

TimeTexts == UNION { [1..n -> TimeAlphabet] : n \in 0..MaxTimeLen }

DecimalDigits == <<"0", "1", "2", "3", "4", "5", "6", "7", "8", "9">>

IsDecimal(text) ==
    /\ text # << >>
    /\ \A i \in 1..Len(text) : \E d \in 1..10 : DecimalDigits[d] = text[i]

RECURSIVE Decimal(_)
Decimal(text) ==
    IF text = << >> THEN 0
    ELSE Decimal(SubSeq(text, 1, Len(text) - 1)) * 10
         + (CHOOSE d \in 1..10 : DecimalDigits[d] = text[Len(text)]) - 1

\* int(text) for a text of digits and signs: the value, or ValueError
ParseInt(text) ==
    IF IsDecimal(text) THEN [ok |-> TRUE, value |-> Decimal(text)]
    ELSE IF text # << >> /\ Head(text) = "-" /\ IsDecimal(Tail(text))
    THEN [ok |-> TRUE, value |-> 0 - Decimal(Tail(text))]
    ELSE [ok |-> FALSE, value |-> 0]

\* BackupSettings._validate_time_format(time_str)
validate_time_format(time_str) ==
    LET parts == Split(time_str, ":") IN
    IF Len(parts) # 2 THEN FALSE
    ELSE LET hours == ParseInt(parts[1])
             minutes == ParseInt(parts[2])
         IN  IF ~hours.ok \/ ~minutes.ok THEN FALSE
             ELSE 0 <= hours.value /\ hours.value < 23
                  /\ 0 <= minutes.value /\ minutes.value < 59

TimeInit ==
    /\ NoJob
    /\ NoService
    /\ arg \in TimeTexts
    /\ ret = NotCalled

\* BackupSettings(retention_days = 7, schedule = arg): __post_init__ raises
\* ValueError or the object is constructed
PostInit ==
    /\ ret = NotCalled
    /\ ret' = [by |-> "BackupSettings",
               raised |-> (retention_days < 1 \/ ~validate_time_format(arg))]
    /\ UNCHANGED <<jobvars, svcvars, arg>>

TimeNext == PostInit

TimeSpec == TimeInit /\ [][TimeNext]_vars

-----------------------------------------------------------------------------
(* The formatting of one text value: DataGenerator.generate, lines 68-85,  *)
(* and _generate_table_inserts_safe, lines 483-522, on a table (id, txt)   *)
(* that holds the single row (7, arg)                                      *)

MaxTextLen == 3

\* The characters of the values: a letter, the quote, the two separators of
\* the bcp file and a blank
Alphabet == {"a", "'", ",", "\n", " "}

Texts == UNION { [1..n -> Alphabet] : n \in 0..MaxTextLen }

QuoteInit ==
    /\ NoJob
    /\ NoService
    /\ arg \in Texts
    /\ ret = NotCalled

\* The INSERT statements the modular DataGenerator writes for the row
Q_Modular ==
    /\ ret = NotCalled
    /\ ret' = [by |-> "modular", stmts |-> <<InsertRow(1, <<IntValue, StrValue(arg)>>)>>]
    /\ UNCHANGED <<jobvars, svcvars, arg>>

\* The INSERT statements _generate_table_inserts_safe writes for the row,
\* read back from the file bcp wrote
Q_Legacy ==
    /\ ret = NotCalled
    /\ ret' = [by |-> "legacy",
               stmts |-> SelectSeq(
                   generate_table_inserts_safe(
                       <<[identity |-> FALSE, rows |-> << <<IntValue, StrValue(arg)>> >>]>>, 1, "ok"),
                   LAMBDA st : st.kind = "INSERT")]
    /\ UNCHANGED <<jobvars, svcvars, arg>>

QuoteNext == Q_Modular \/ Q_Legacy

QuoteSpec == QuoteInit /\ [][QuoteNext]_vars

-----------------------------------------------------------------------------
(* The type string of one column: SchemaGenerator.generate, lines 58-77,   *)
(* and the CASE of _generate_table_ddl, lines 211-238                      *)

MaxLength == 4

\* A row of sys.columns: TYPE_NAME(user_type_id), max_length, precision, scale
ColumnDescriptor(type_name, max_len, precision, scale) ==
    [type_name |-> type_name, max_len |-> max_len, precision |-> precision, scale |-> scale]

\* The rows the catalog gives: max_length is in bytes, two per character of a
\* wide type, and -1 for varchar(max), nvarchar(max), varbinary(max) and xml
ColumnDescriptors ==
    { ColumnDescriptor(t, n, 0, 0) :
        t \in {"varchar", "varbinary"}, n \in (1..MaxLength) \cup {-1} }
    \cup { ColumnDescriptor(t, n, 0, 0) : t \in {"char", "binary"}, n \in 1..MaxLength }
    \cup { ColumnDescriptor("nvarchar", n, 0, 0) :
            n \in { 2 * k : k \in 1..MaxLength } \cup {-1} }
    \cup { ColumnDescriptor("nchar", 2 * k, 0, 0) : k \in 1..MaxLength }
    \cup UNION { { ColumnDescriptor(t, 5, p, s) : s \in 0..p } :
                    t \in {"decimal", "numeric"}, p \in 1..MaxLength }
    \cup { ColumnDescriptor("int", 4, 10, 0),
           ColumnDescriptor("datetime", 8, 23, 3),
           ColumnDescriptor("xml", -1, 0, 0) }

\* str(n), CAST(n AS VARCHAR) of a natural number
RECURSIVE Str(_)
Str(n) ==
    IF n < 10 THEN <<DecimalDigits[n + 1]>>
    ELSE Str(n \div 10) \o <<DecimalDigits[(n % 10) + 1]>>

MaxText == <<"M", "A", "X">>

\* type_str of SchemaGenerator.generate
type_str(col) ==
    IF col.type_name \in {"varchar", "char", "varbinary", "binary"}
    THEN <<col.type_name, "(">>
         \o (IF col.max_len # -1 THEN Str(col.max_len) ELSE MaxText) \o <<")">>
    ELSE IF col.type_name \in {"nvarchar", "nchar"}
    THEN <<col.type_name, "(">>
         \o (IF col.max_len # -1 THEN Str(col.max_len \div 2) ELSE MaxText) \o <<")">>
    ELSE IF col.type_name \in {"decimal", "numeric"}
    THEN <<col.type_name, "(">> \o Str(col.precision) \o <<",">> \o Str(col.scale) \o <<")">>
    ELSE <<col.type_name>>

\* TYPE_NAME(c.user_type_id) + CASE ... END of _generate_table_ddl: the test
\* of max_length = -1 comes first, before any test of the type
ddl_type_str(col) ==
    <<col.type_name>>
    \o (IF col.max_len = -1 THEN <<"(">> \o MaxText \o <<")">>
        ELSE IF col.type_name \in {"varchar", "char", "varbinary", "binary"}
        THEN <<"(">> \o Str(col.max_len) \o <<")">>
        ELSE IF col.type_name \in {"nvarchar", "nchar"}
        THEN <<"(">> \o Str(col.max_len \div 2) \o <<")">>
        ELSE IF col.type_name \in {"decimal", "numeric"}
        THEN <<"(">> \o Str(col.precision) \o <<",">> \o Str(col.scale) \o <<")">>
        ELSE << >>)

TypeInit ==
    /\ NoJob
    /\ NoService
    /\ arg \in ColumnDescriptors
    /\ ret = NotCalled

T_Modular ==
    /\ ret = NotCalled
    /\ ret' = [by |-> "modular", type_str |-> type_str(arg)]
    /\ UNCHANGED <<jobvars, svcvars, arg>>

T_Legacy ==
    /\ ret = NotCalled
    /\ ret' = [by |-> "legacy", type_str |-> ddl_type_str(arg)]
    /\ UNCHANGED <<jobvars, svcvars, arg>>

TypeNext == T_Modular \/ T_Legacy

TypeSpec == TypeInit /\ [][TypeNext]_vars

-----------------------------------------------------------------------------
(* The formatting of one row value of any class: DataGenerator.generate,   *)
(* lines 69-82                                                             *)

MaxBytes == 2

\* The bytes of the binary values
ByteValues == {0, 10, 255}

\* The values a row may hold
RowValues ==
    { NullValue, IntValue, BoolValue(TRUE), BoolValue(FALSE),
      DecimalValue(<<"1", ".", "5", "0">>),
      DateTimeValue(<<"2", "0", "2", "4", "-", "0", "1", "-", "0", "2", " ",
                      "0", "3", ":", "0", "4", ":", "0", "5">>),
      DateTimeValue(<<"2", "0", "2", "4", "-", "0", "1", "-", "0", "2">>) }
    \cup { StrValue(t) : t \in Texts }
    \cup { BytesValue(b) : b \in UNION { [1..n -> ByteValues] : n \in 0..MaxBytes } }

ValueInit ==
    /\ NoJob
    /\ NoService
    /\ arg \in RowValues
    /\ ret = NotCalled

\* values.append(...) for one value of a row
V_Format ==
    /\ ret = NotCalled
    /\ ret' = [by |-> "DataGenerator", text |-> FormatValue(arg)]
    /\ UNCHANGED <<jobvars, svcvars, arg>>

ValueNext == V_Format

ValueSpec == ValueInit /\ [][ValueNext]_vars

-----------------------------------------------------------------------------
(* ConfigRepository.get_backup_settings on a loaded configuration          *)

\* The values a settings section may give
RetentionValues == {0, 1, 30}
ScheduleValues == { <<"0", "2", ":", "0", "0">>, <<"2", "5", ":", "0", "0">> }

\* dict.get(key, default)
Get(dict, key, default) == IF key \in DOMAIN dict THEN dict[key] ELSE default

\* A settings section: a dict that may hold retention_days and schedule
SettingsDicts ==
    UNION { { [k \in ks |-> IF k = "retention_days" THEN rd ELSE sch] :
                rd \in RetentionValues, sch \in ScheduleValues } :
            ks \in SUBSET {"retention_days", "schedule"} }

\* The loaded configuration: the section under the name Config.DEFAULT_CONFIG
\* and the saved files use, under the hyphenated name, under both or under none
RawConfigs ==
    UNION { [ss -> SettingsDicts] : ss \in SUBSET {"backup_settings", "backup-settings"} }

\* BackupSettings(retention_days, schedule): the object, or ValueError
BackupSettings(days, schedule) ==
    [raised |-> (days < 1 \/ ~validate_time_format(schedule)),
     retention_days |-> days, schedule |-> schedule]

\* ConfigRepository.get_backup_settings: BackupSettings built from the section
\* 'backup-settings', or BackupSettings() when the constructor raised
get_backup_settings(raw_config) ==
    LET settings_dict == Get(raw_config, "backup-settings", << >>)
        built == BackupSettings(Get(settings_dict, "retention_days", retention_days),
                                Get(settings_dict, "schedule", <<"0", "2", ":", "0", "0">>))
    IN  IF built.raised
        THEN BackupSettings(retention_days, <<"0", "2", ":", "0", "0">>)
        ELSE built

SettingsInit ==
    /\ NoJob
    /\ NoService
    /\ arg \in RawConfigs
    /\ ret = NotCalled

\* BackupService.__init__, lines 30 and 36: the settings are read and
\* CleanupService is built with their retention_days
BackupServiceInit ==
    /\ ret = NotCalled
    /\ ret' = [by |-> "BackupService",
               retention_days |-> get_backup_settings(arg).retention_days]
    /\ UNCHANGED <<jobvars, svcvars, arg>>

SettingsNext == BackupServiceInit

SettingsSpec == SettingsInit /\ [][SettingsNext]_vars

-----------------------------------------------------------------------------
(* Vocabulary of the properties                                            *)

Ran(phase) == \E k \in 1..Len(phases) : phases[k].phase = phase
Succeeded(phase) == \E k \in 1..Len(phases) : phases[k].phase = phase /\ phases[k].ok
Failed(phase) == \E k \in 1..Len(phases) : phases[k].phase = phase /\ ~phases[k].ok

Returned == result.returned
JobSucceeded == result.returned /\ result.success
JobFailed == result.returned /\ ~result.success /\ result.error # None

\* Positions of the statements of the given kinds that name table i, under
\* either spelling of its name
TableStmts(kinds, i) ==
    { k \in 1..Len(script) :
        script[k].kind \in kinds /\ script[k].table \in {FullName(i), QualifiedName(i)} }

\* The section names of the script, in the order of their banners
RECURSIVE Sections(_)
Sections(text) ==
    IF text = << >> THEN << >>
    ELSE (IF Head(text).kind = "BANNER" THEN <<Head(text).name>> ELSE << >>)
         \o Sections(Tail(text))

IsPrefix(s, t) == Len(s) <= Len(t) /\ SubSeq(t, 1, Len(s)) = s

-----------------------------------------------------------------------------
(* C1..C10                                                                 *)

\* C1: when the schema phase or the data phase fails, no later phase runs and
\* the BackupResult of the job has success = false with the error set.
\* Refuted by the modular backup(), which discards the value generate() returns.
C1_SchemaOrDataFailureAborts ==
    \A k \in 1..Len(phases) :
        (phases[k].phase \in {"schema", "data"} /\ ~phases[k].ok)
            => /\ k = Len(phases)
               /\ Returned => JobFailed

\* C2: when a dependent-object phase fails while the schema and data phases
\* succeeded, every dependent-object phase still runs and the job returns
\* success = true with the script path.
C2_DependentFailureIsNotFatal ==
    (Returned /\ Succeeded("schema") /\ Succeeded("data"))
        => /\ result.success
           /\ result.output_file = ScriptPath
           /\ result.error = None
           /\ impl = "modular" =>
                \A p \in {"defaults", "indexes", "procedures", "triggers", "foreign keys"} :
                    Cardinality({ k \in 1..Len(phases) : phases[k].phase = p }) = 1

C2_Witness ==
    /\ JobSucceeded
    /\ Succeeded("schema") /\ Succeeded("data")
    /\ Failed("procedures")
    /\ Succeeded("triggers") /\ Ran("foreign keys")

EmittedSections ==
    <<"header", "schema", "data", "defaults", "indexes", "procedures", "triggers",
      "foreign keys">>

SectionRank(name) ==
    IF \E j \in 1..Len(EmittedSections) : EmittedSections[j] = name
    THEN CHOOSE j \in 1..Len(EmittedSections) : EmittedSections[j] = name
    ELSE 0

C4_ForeignKeysAfterAllTables ==
    \A k \in 1..Len(script) :
        script[k].kind = "FOREIGN KEY" =>
            /\ Succeeded("schema")
            /\ \A i \in 1..Len(db) :
                /\ \E j \in TableStmts({"CREATE TABLE"}, i) : j < k
                /\ db[i].identity => \E j \in TableStmts({"PRIMARY KEY"}, i) : j < k

\* C5: every INSERT, PRIMARY KEY, DEFAULT, INDEX and FOREIGN KEY statement names
\* its table by the identifier under which an earlier CREATE TABLE statement of
\* the script created it.  Stated for the jobs in which no phase failed.
\* Refuted: the modular generators create [dbo.T] and then alter [dbo].[T].
C5_StatementsNameCreatedTables ==
    (\A c \in 1..Len(phases) : phases[c].ok) =>
        \A k \in 1..Len(script) :
            script[k].kind \in {"INSERT", "PRIMARY KEY", "DEFAULT", "INDEX", "FOREIGN KEY"} =>
                \E j \in 1..(k - 1) :
                    script[j].kind = "CREATE TABLE" /\ script[j].table = script[k].table

\* C6: once the data phase has run, every table with an identity column whose
\* INSERTs are in the script has SET IDENTITY_INSERT ON before the first and
\* SET IDENTITY_INSERT OFF after the last of them; a table without an identity
\* column has no SET IDENTITY_INSERT.  Stated for the jobs that meet at most
\* one failure.
\* Refuted: the modular data generator leaves the bracket open when a row fails.
C6_IdentityBracket ==
    (Ran("data") /\ faults <= 1) =>
        \A i \in 1..Len(db) :
            LET ins == TableStmts({"INSERT"}, i)
                set == TableStmts({"SET IDENTITY_INSERT"}, i)
            IN  /\ ~db[i].identity => set = {}
                /\ (db[i].identity /\ ins # {}) =>
                     /\ \E p \in set : script[p].name = "ON" /\ \A k \in ins : p < k
                     /\ \E q \in set : script[q].name = "OFF" /\ \A k \in ins : k < q

\* C7: a table with no rows gets no INSERT and no SET IDENTITY_INSERT, and the
\* emitter goes on: in a job that met no failure every table with rows has its
\* INSERTs, whatever empty tables come before it.
C7_EmptyTableSkipped ==
    \A i \in 1..Len(db) :
        /\ Len(db[i].rows) = 0
              => TableStmts({"INSERT", "SET IDENTITY_INSERT", "DATA COMMENT"}, i) = {}
        /\ (JobSucceeded /\ faults = 0 /\ Len(db[i].rows) > 0)
              => TableStmts({"INSERT"}, i) # {}

C7_Witness ==
    /\ JobSucceeded /\ faults = 0
    /\ Len(db) = 2
    /\ db[1].identity /\ Len(db[1].rows) = 0
    /\ Len(db[2].rows) > 0
    /\ TableStmts({"INSERT"}, 2) # {}
    /\ TableStmts({"INSERT", "SET IDENTITY_INSERT"}, 1) = {}

\* C8: the column list of every INSERT equals the column list of the CREATE
\* TABLE statement of its table, and the INSERT has one value per column.
\* Stated for the jobs that meet no failure.
\* Refuted: the legacy job cuts the bcp file at every newline, also at one
\* inside a text value, and lists as many columns as the line has fields.
C8_InsertColumnsMatchCreateTable ==
    faults = 0 => \A k \in 1..Len(script) :
        script[k].kind = "INSERT" =>
            /\ Len(script[k].vals) = Len(script[k].cols)
            /\ \A j \in 1..Len(script) :
                (script[j].kind = "CREATE TABLE" /\ script[j].table = script[k].table)
                    => script[j].cols = script[k].cols

\* C9: a job whose password still holds placeholder syntax returns a failed
\* result at once: no connection attempt, no phase, nothing written.
\* Refuted: the modular backup() connects without looking at the credentials.
C9_PlaceholderRefused ==
    HasPlaceholder(password) =>
        /\ attempts = 0 /\ conn = "none"
        /\ phases = << >> /\ ~exists
        /\ pc # "start" => JobFailed

\* C10: from the step in which the schema or data phase fails, the script file
\* stays on disk and is only appended to.
C10_PartialScriptKept ==
    [][ (\E k \in 1..Len(phases') :
            phases'[k].phase \in {"schema", "data"} /\ ~phases'[k].ok)
        => (exists' /\ exists /\ IsPrefix(script, script')) ]_vars

C10_Witness ==
    /\ JobFailed
    /\ Failed("schema")
    /\ exists
    /\ IsPrefix(Header, script)
    /\ TableStmts({"CREATE TABLE"}, 1) # {}
    /\ TableStmts({"CREATE TABLE"}, 2) = {}
    /\ Len(db) = 2

-----------------------------------------------------------------------------
(* C11..C20                                                                *)

\* The database whose job is in flight is of type sqlserver or mssql
SqlServerJob ==
    /\ svc.op = "backup_all_databases"
    /\ pc # "none"
    /\ Lower(databases[svc.at].type) \in
            { <<"s", "q", "l", "s", "e", "r", "v", "e", "r">>, <<"m", "s", "s", "q", "l">> }

\* C11: a job for a database of type sqlserver or mssql that the service
\* dispatches through the factory runs no external tool (sqlcmd, bcp) and does
\* not fail because such a tool is missing.
\* Refuted: the factory creates the class of sqlserver_strategy.py, which
\* looks for sqlcmd first and runs sqlcmd for every catalog query.
C11_NoExternalTool ==
    SqlServerJob =>
        ~(impl = "legacy"
          /\ (Ran("schema") \/ result.error = "La herramienta sqlcmd no esta instalada"))

\* The rows of the foreign-key query that belong to the constraint `name` of
\* table `tbl`, in the order of the query (by key ordinal)
ConstraintRows(d, name, tbl) ==
    SelectSeq(FkRows(d), LAMBDA r : r.name = name /\ r.tbl = tbl)

\* C12: a foreign key of k column pairs is written as exactly one FOREIGN KEY
\* statement that lists its k columns and its k referenced columns in key
\* order; there are as many FOREIGN KEY statements as constraints.
C12_OneStatementPerForeignKey ==
    Succeeded("foreign keys") =>
        LET stmts == { k \in 1..Len(script) : script[k].kind = "FOREIGN KEY" }
            keys == { <<FkRows(db)[j].name, FkRows(db)[j].tbl>> : j \in 1..Len(FkRows(db)) }
        IN  /\ Cardinality(stmts) = Cardinality(keys)
            /\ \A key \in keys :
                LET rows == ConstraintRows(db, key[1], key[2])
                    mine == { k \in stmts : script[k].name = key[1]
                                            /\ script[k].table = QualifiedName(key[2]) }
                IN  /\ Cardinality(mine) = 1
                    /\ \A k \in mine :
                        /\ script[k].cols = [j \in 1..Len(rows) |-> rows[j].col]
                        /\ script[k].vals = <<QualifiedName(rows[1].ref)>>
                                            \o [j \in 1..Len(rows) |-> rows[j].ref_col]

C12_Witness ==
    /\ Succeeded("foreign keys")
    /\ \E k \in 1..Len(script) :
        /\ script[k].kind = "FOREIGN KEY"
        /\ Len(script[k].cols) = 2
        /\ Len(script[k].vals) = 3

\* The text between the quotes of a literal is well formed when its quotes
\* come in pairs
RECURSIVE QuotesPaired(_)
QuotesPaired(inner) ==
    IF inner = << >> THEN TRUE
    ELSE IF Head(inner) # "'" THEN QuotesPaired(Tail(inner))
    ELSE Len(inner) >= 2 /\ inner[2] = "'" /\ QuotesPaired(Tail(Tail(inner)))

\* The text a well-formed literal stands for: every pair of quotes is one quote
RECURSIVE Undouble(_)
Undouble(inner) ==
    IF inner = << >> THEN << >>
    ELSE IF Head(inner) = "'" THEN <<"'">> \o Undouble(Tail(Tail(inner)))
    ELSE <<Head(inner)>> \o Undouble(Tail(inner))

\* The literal is a quoted text and reads back as `text`
ReadsBackAs(literal, text) ==
    /\ Len(literal) >= 2
    /\ Head(literal) = "'" /\ literal[Len(literal)] = "'"
    /\ LET inner == SubSeq(literal, 2, Len(literal) - 1)
       IN  QuotesPaired(inner) /\ Undouble(inner) = text

\* C13: a text value is written as one single-quoted literal with every quote
\* of the text doubled and nothing else changed, so that the literal reads
\* back as the text.
\* Refuted by the legacy generator, which reads the values back from a text
\* file: a comma or a newline in the text cuts it, blanks at the end of the
\* row are stripped.
C13_QuotedLiteralReadsBack ==
    ret.by \in {"modular", "legacy"} =>
        /\ Len(ret.stmts) = 1
        /\ Len(ret.stmts[1].vals) = 2
        /\ ReadsBackAs(ret.stmts[1].vals[2], arg)
\* output_file is set exactly on success and error exactly on failure
SetOnlyAsStated(r) ==
    /\ (r.output_file # None) <=> r.success
    /\ (r.error # None) <=> ~r.success

\* C14: every BackupResult a strategy returned and every BackupResult the
\* service holds has output_file set if and only if success is true, and
\* error set if and only if success is false
C14_ResultFieldsMatchSuccess ==
    /\ result.returned => SetOnlyAsStated(result)
    /\ \A k \in 1..Len(results) : SetOnlyAsStated(results[k])

\* One run gave a successful result with its path and a failed one whose
\* error is the empty stderr of the dump tool
C14_Witness ==
    /\ svc.op = "none" /\ svc.runs > 0
    /\ \E j, k \in 1..Len(results) :
        /\ results[j].success /\ results[j].output_file # None
        /\ ~results[k].success /\ results[k].error = ""
\* C15: an exception that left backup() becomes a failed BackupResult with
\* the error text and the loop over the databases goes on; a scheduled job
\* ends without an exception, with the process still running and ready for
\* the next scheduled run
C15_NoErrorEscapesTheJob ==
    [][ /\ (pc = "raised" /\ pc' # "raised") =>
             /\ process' = "running"
             /\ Len(results') = Len(results) + 1
             /\ ~results'[Len(results')].success
             /\ results'[Len(results')].error # None
             /\ svc'.at = svc.at + 1
        /\ (svc'.scheduled # svc.scheduled) =>
             /\ process' = "running"
             /\ svc'.op = "none" ]_vars

\* The backup() of a dump strategy raised (it returned no result and left its
\* file), execute_backup made a failed result of it, and a scheduled job ran
\* afterwards
C15_Witness ==
    /\ process = "running"
    /\ pc = "none" /\ impl \in {"mysql", "postgresql"}
    /\ ~result.returned /\ exists
    /\ Len(results) > 0
    /\ ~results[Len(results)].success
    /\ results[Len(results)].error = "exception"
    /\ svc.scheduled > 0
\* C16: when the process exits on a stop signal, no job is left in flight:
\* the job that was running has run all its phases and its BackupResult has
\* been produced and taken into the results of the run
C16_InFlightJobCompletes ==
    process = "exited" => pc = "none"
\* C17: no step removes a file whose name starts with ANNUAL_, whatever its
\* age and whatever directory it is in: every annual artifact that was
\* created stays on disk through every later daily or annual run
C17_AnnualArtifactsKept ==
    [][ \A f \in files : StartsWith(f.name, AnnualMark) => f \in files' ]_vars

\* A daily run has ended, with its cleanup, more than retention_days days
\* after an annual run: the artifact of the annual run and an ANNUAL_ file of
\* the daily directory older than the cutoff are both still there
C17_Witness ==
    /\ svc.op = "none" /\ ~svc.is_annual /\ svc.runs = 2
    /\ svc.now > retention_days
    /\ \E h \in files : h.dir = "Backups" /\ h.mtime = svc.now
    /\ \E f \in files :
        /\ f.dir = "Backups" /\ StartsWith(f.name, AnnualMark)
        /\ EndsWith(f.name, patterns[1])
        /\ f.mtime < svc.now - retention_days
    /\ \E g \in files :
        /\ g.dir = "Annual" /\ StartsWith(g.name, AnnualMark)
        /\ g.mtime < svc.now - retention_days
\* The files the retention rule names: directly in the directory, matching
\* one of the patterns, without the ANNUAL_ prefix and older than the cutoff
DueForDeletion(tree, dir, now) ==
    { f \in tree :
        /\ f.dir = dir
        /\ \E k \in 1..Len(patterns) : EndsWith(f.name, patterns[k])
        /\ ~StartsWith(f.name, AnnualMark)
        /\ f.mtime < now - retention_days }

AtUnsupportedType ==
    /\ InLoop
    /\ databases[svc.at].enabled
    /\ \A e \in strategies : Lower(e[1]) # Lower(databases[svc.at].type)

\* C19: for a database of an unsupported type the factory gives no strategy
\* and the next step of the run is the failed BackupResult of that database:
\* no job begins, no connection is attempted and no file is written
C19_UnsupportedTypeFailsAtOnce ==
    [][ (AtUnsupportedType /\ process' = "running") =>
            /\ create(databases[svc.at].type) = None
            /\ results' = Append(results, results'[Len(results')])
            /\ results'[Len(results')].database_name = Name(svc.at)
            /\ ~results'[Len(results')].success
            /\ results'[Len(results')].error # None
            /\ results'[Len(results')].output_file = None
            /\ UNCHANGED <<pc, conn, attempts, exists, script, files>> ]_vars

\* A run over an unsupported and a supported database has ended: the first
\* failed without a file, the second was still backed up
C19_Witness ==
    /\ svc.op = "none" /\ svc.runs > 0
    /\ Len(results) = 2
    /\ results[1].error = "Tipo de base de datos no soportado"
    /\ results[1].output_file = None
    /\ results[2].success
    /\ \A f \in files : ~StartsWith(f.name, Prefix(svc.is_annual) \o Name(1))
\* A time of day written HH:MM: two digits, a colon, two digits, with
\* 0 <= HH <= 23 and 0 <= MM <= 59
IsTimeOfDay(text) ==
    /\ Len(text) = 5
    /\ text[3] = ":"
    /\ IsDecimal(SubSeq(text, 1, 2)) /\ IsDecimal(SubSeq(text, 4, 5))
    /\ Decimal(SubSeq(text, 1, 2)) <= 23
    /\ Decimal(SubSeq(text, 4, 5)) <= 59

\* C20: BackupSettings is constructed exactly when its schedule is a time of
\* day HH:MM with 0 <= HH <= 23 and 0 <= MM <= 59, hour 23 and minute 59
\* included; every other text raises ValueError
C20_ScheduleAcceptedIffTimeOfDay ==
    ret.by = "BackupSettings" => (~ret.raised <=> IsTimeOfDay(arg))
\* The type string the column descriptor is to give
StatedTypeString(col) ==
    CASE col.type_name \in {"varchar", "char", "varbinary", "binary"} ->
            <<col.type_name, "(">>
            \o (IF col.max_len = -1 THEN MaxText ELSE Str(col.max_len)) \o <<")">>
      [] col.type_name \in {"nvarchar", "nchar"} ->
            <<col.type_name, "(">>
            \o (IF col.max_len = -1 THEN MaxText ELSE Str(col.max_len \div 2)) \o <<")">>
      [] col.type_name \in {"decimal", "numeric"} ->
            <<col.type_name, "(">> \o Str(col.precision) \o <<",">> \o Str(col.scale)
            \o <<")">>
      [] OTHER -> <<col.type_name>>

\* C21: the type string of a column is type(N) or type(MAX) for the byte
\* types, type(N/2) or type(MAX) for the wide character types,
\* type(precision,scale) for decimal and numeric, and the bare type name for
\* every other type whatever its max length
C21_TypeStringAsStated ==
    ret.by \in {"modular", "legacy"} => ret.type_str = StatedTypeString(arg)
\* C22: a row value is formatted by the first rule that matches, in this
\* order: null gives NULL; a string gives its quoted literal; a date/time
\* gives its text in single quotes; a binary value gives 0x and its hex
\* digits, or NULL when it is empty; a boolean gives 1 or 0, never True or
\* False; anything else gives its text unquoted
C22_ValueFormattedByFirstRule ==
    ret.by = "DataGenerator" =>
        CASE arg.kind = "null" -> ret.text = <<"NULL">>
          [] arg.kind = "str" -> ReadsBackAs(ret.text, arg.text)
          [] arg.kind = "datetime" -> ret.text = <<"'">> \o arg.text \o <<"'">>
          [] arg.kind = "bytes" ->
                /\ arg.bytes = << >> => ret.text = <<"NULL">>
                /\ arg.bytes # << >> =>
                    /\ Len(ret.text) = 2 + 2 * Len(arg.bytes)
                    /\ SubSeq(ret.text, 1, 2) = <<"0", "x">>
                    /\ \A i \in 1..Len(arg.bytes) :
                        \E h, l \in 1..16 :
                            /\ ret.text[2 * i + 1] = HexDigits[h]
                            /\ ret.text[2 * i + 2] = HexDigits[l]
                            /\ arg.bytes[i] = 16 * (h - 1) + (l - 1)
          [] arg.kind = "bool" -> ret.text = IF arg.truth THEN <<"1">> ELSE <<"0">>
          [] OTHER -> ret.text = arg.text

\* The boolean True, whose text is "True", was formatted as 1
C22_Witness ==
    /\ ret.by = "DataGenerator"
    /\ arg.kind = "bool" /\ arg.truth
    /\ arg.text = <<"T", "r", "u", "e">>
    /\ ret.text = <<"1">>
\* What the step in hand appends to the script
Appended == SubSeq(script', Len(script) + 1, Len(script'))

\* The number of statements of one kind for table i among `stmts`
CountOf(stmts, kind, i) ==
    Cardinality({ k \in 1..Len(stmts) : stmts[k].kind = kind /\ stmts[k].table = FullName(i) })

\* C23: when the data phase of a job has read the rows of a table and a row
\* of it fails, that row alone is skipped: the other rows of the table and
\* the rows of all following tables are still emitted and the data phase
\* does not fail
C23_FailedRowIsSkipped ==
    [][ (impl = "modular" /\ pc = "data" /\ pc' # "data") =>
            \A i \in 1..Len(db) :
                (/\ CountOf(Appended, "DATA COMMENT", i) = 1
                 /\ CountOf(Appended, "INSERT", i) < Len(db[i].rows)) =>
                    /\ CountOf(Appended, "INSERT", i) >= Len(db[i].rows) - 1
                    /\ phases'[Len(phases')].ok
                    /\ \A j \in (i + 1)..Len(db) :
                        CountOf(Appended, "INSERT", j) = Len(db[j].rows) ]_vars
\* C24: a job makes at most one connection; a connection that was opened is
\* closed by the time backup() returns and stays closed, so it is closed
\* exactly once; after it is closed no phase runs and nothing is written
C24_OneConnectionClosedOnce ==
    [][ /\ attempts' <= 1
        /\ (conn # "open" /\ conn' = "open") => (conn = "none" /\ attempts = 0)
        /\ conn = "closed" =>
             (conn' = "closed" /\ phases' = phases /\ script' = script /\ pc' = pc)
        /\ result'.returned => conn' # "open" ]_vars

\* The job connected, failed while writing the header, and returned with the
\* connection closed and no phase run
C24_Witness ==
    /\ impl = "modular"
    /\ result.returned /\ ~result.success
    /\ attempts = 1 /\ conn = "closed"
    /\ phases = << >> /\ script = << >>
\* C25: a job whose connection attempt failed has made exactly one attempt,
\* has run no phase and written nothing, and has returned a BackupResult with
\* success false
C25_ConnectFailureIsFatal ==
    (impl = "modular" /\ attempts > 0 /\ conn = "none") =>
        /\ attempts = 1
        /\ result.returned /\ ~result.success /\ result.error # None
        /\ phases = << >>
        /\ script = << >> /\ ~exists

\* The one attempt failed and the job returned "Connection failed"
C25_Witness ==
    /\ impl = "modular"
    /\ attempts = 1 /\ conn = "none"
    /\ result.returned /\ ~result.success
    /\ result.error = "Connection failed"
\* C26: every execution of the scheduled job makes a run of
\* backup_all_databases over the configured databases (the daily run, after
\* an annual run when one is due)
C26_ScheduledJobRunsDailyBackup ==
    [][ svc'.scheduled # svc.scheduled =>
            (svc'.runs > svc.runs /\ svc'.op = "backup_all_databases") ]_vars
\* The configuration gives a retention_days in its backup_settings section
\* and the section is one BackupSettings accepts
GivesRetention(raw_config) ==
    /\ "backup_settings" \in DOMAIN raw_config
    /\ "retention_days" \in DOMAIN raw_config["backup_settings"]
    /\ raw_config["backup_settings"]["retention_days"] >= 1
    /\ "schedule" \in DOMAIN raw_config["backup_settings"] =>
            IsTimeOfDay(raw_config["backup_settings"]["schedule"])

\* C27: the retention threshold of the cleanup is the retention_days of the
\* backup_settings section of the loaded configuration; the default of 7
\* days applies only when the configuration gives no value
C27_RetentionFromConfiguration ==
    ret.by = "BackupService" =>
        /\ GivesRetention(arg) =>
                ret.retention_days = arg["backup_settings"]["retention_days"]
        /\ "backup_settings" \notin DOMAIN arg => ret.retention_days = retention_days
\* The names of the enabled databases among the first n, in configuration order
RECURSIVE EnabledUpTo(_)
EnabledUpTo(n) ==
    IF n = 0 THEN << >>
    ELSE EnabledUpTo(n - 1) \o (IF databases[n].enabled THEN <<Name(n)>> ELSE << >>)

\* C28: the results of a run of backup_all_databases are one BackupResult
\* per enabled database, in configuration order, and none for a disabled
\* database: while the loop stands at a database the results are those of
\* the enabled databases before it, whether their jobs failed or not, and
\* when the run has ended they are those of all enabled databases
C28_OneResultPerEnabledDatabase ==
    /\ svc.op = "backup_all_databases" =>
            [k \in 1..Len(results) |-> results[k].database_name] = EnabledUpTo(svc.at - 1)
    /\ (svc.op = "none" /\ svc.runs > 0) =>
            [k \in 1..Len(results) |-> results[k].database_name]
                = EnabledUpTo(Len(databases))

\* A run over two enabled databases has ended: the job of the first failed
\* and the second was backed up all the same
C28_Witness ==
    /\ svc.op = "none" /\ svc.runs > 0
    /\ Len(databases) = 2
    /\ databases[1].enabled /\ databases[2].enabled
    /\ Len(results) = 2
    /\ ~results[1].success /\ results[1].database_name = Name(1)
    /\ results[2].success /\ results[2].database_name = Name(2)
\* C29: in the script a finished job has left on disk, every
\* SET IDENTITY_INSERT ON of a table is followed by the SET IDENTITY_INSERT OFF
\* of the same table, with nothing between them but the INSERTs of that table
\* and their GO
C29_IdentityInsertClosed ==
    (result.returned /\ exists) =>
        \A p \in 1..Len(script) :
            (script[p].kind = "SET IDENTITY_INSERT" /\ script[p].name = "ON") =>
                \E q \in (p + 1)..Len(script) :
                    /\ script[q].kind = "SET IDENTITY_INSERT"
                    /\ script[q].name = "OFF"
                    /\ script[q].table = script[p].table
                    /\ \A k \in (p + 1)..(q - 1) :
                        \/ script[k].kind = "GO"
                        \/ script[k].kind = "INSERT" /\ script[k].table = script[p].table
\* C30: files are removed by one step only, the one that ends a daily run
\* after the jobs of all its databases; that step removes the files the
\* retention rule names and reports their number; the step that ends an
\* annual run removes no file and reports zero deleted
C30_CleanupOncePerDailyRun ==
    [][ /\ (\E f \in files : f \notin files') =>
             /\ svc.op = "backup_all_databases" /\ ~svc.is_annual
             /\ svc.at > Len(databases) /\ pc = "none"
             /\ svc'.op = "none"
        /\ (svc.op = "backup_all_databases" /\ svc'.op = "none") =>
             IF svc.is_annual
             THEN files' = files /\ svc'.deleted = 0
             ELSE /\ files' = files \ DueForDeletion(files, "Backups", svc.now)
                  /\ svc'.deleted = Cardinality(DueForDeletion(files, "Backups", svc.now)) ]_vars

\* An annual run has ended and a daily backup older than the retention
\* period is still in the daily directory
C30_Witness ==
    /\ svc.op = "none" /\ svc.is_annual /\ svc.runs = 2
    /\ svc.deleted = 0
    /\ DueForDeletion(files, "Backups", svc.now) # {}

====
